---------------------------- MODULE Spec2Model ----------------------------
(***************************************************************************)
(* A model of a8.py: the Cell/Grid lattice, the three maze makers          *)
(* (BinaryTreeMazeMaker, SidewinderMazeMaker, EllerMazeMaker) and the two  *)
(* solvers (Grid.solve_maze, DjikstraSolver).                              *)
(*                                                                         *)
(* A cell is the pair <<row, col>>; Python's None is the empty tuple.      *)
(* random.choice / random.randint are nondeterministic choices, and so is  *)
(* the iteration order of a Python set (Cell.links).                       *)
(***************************************************************************)
EXTENDS Integers, Sequences, FiniteSets, TLC

VARIABLES
    grid,            \* "none" before Grid(...), "constructed" after it returned
    num_rows,        \* Grid.num_rows
    num_cols,        \* Grid.num_cols
    neighbor_cells,  \* Cell.neighbor_cells of every cell: direction -> cell or None
    links,           \* Cell.links of every cell
    distance,        \* Cell.distance of every cell
    previous,        \* Cell.previous of every cell (None: the attribute is not set)
    pc,              \* the running operation and its position
    i,               \* the index of the running loop over cells of a row / all_cells()
    y,               \* the index of the row the maker is working on
    run,             \* SidewinderMazeMaker.make_maze: run
    set_counter,     \* EllerMazeMaker.make_maze: set_counter
    sets,            \* EllerMazeMaker.make_maze: sets (a dict cell -> set id)
    set_groups,      \* EllerMazeMaker.make_maze: the groups the south loop still visits
    start_cell,      \* Grid.solve_maze: start_cell
    end_cell,        \* Grid.solve_maze: end_cell
    stack,           \* Grid.solve_maze: stack
    visited,         \* Grid.solve_maze: visited
    queue,           \* DjikstraSolver.queue
    solves,          \* the number of DjikstraSolver.solve calls made so far
    path,            \* what Grid.solve_maze returned, while the caller holds it
    dj_path,         \* what DjikstraSolver.solve returned, while the caller holds it
    closest          \* what Cell.get_closest_cell returned, and for which cell

vars == <<grid, num_rows, num_cols, neighbor_cells, links, distance, previous,
          pc, i, y, run, set_counter, sets, set_groups, start_cell, end_cell,
          stack, visited, queue, solves, path, dj_path, closest>>

gridVars == <<grid, num_rows, num_cols, neighbor_cells>>
makerVars == <<i, y, run, set_counter, sets, set_groups>>
dfsVars == <<start_cell, end_cell, stack, visited, path>>
djVars == <<queue, solves, dj_path>>

-----------------------------------------------------------------------------
(* Bounds of the model *)

\* Grids handed to the makers have at most MaxMakerCells cells
MaxMakerCells == 10
\* Grids handed to the solvers have at most MaxSolverCells cells
MaxSolverCells == 4
\* DjikstraSolver.solve is called at most MaxSolves times on one grid
MaxSolves == 2

\* The distance DjikstraSolver.initialize gives to every cell: 10000 in the
\* code, scaled down so that a grid within MaxSolverCells has a link path as
\* long as the sentinel. relax and solve only compare distances with it.
Sentinel == 3

-----------------------------------------------------------------------------
(* Cell *)

None == <<>>

NORTH == "North"
SOUTH == "South"
EAST == "East"
WEST == "West"
Directions == <<NORTH, SOUTH, EAST, WEST>>

\* Grid.get_cell
get_cell(R, C, row, col) ==
    IF 0 <= row /\ row < R /\ 0 <= col /\ col < C THEN <<row, col>> ELSE None

\* Grid.prepare_grid: self.rows, a list of R rows of C cells
prepare_grid(R, C) ==
    [r \in 1..(IF R > 0 THEN R ELSE 0) |->
        [c \in 1..(IF C > 0 THEN C ELSE 0) |-> <<r - 1, c - 1>>]]

RECURSIVE Flatten(_)
Flatten(rs) == IF rs = <<>> THEN <<>> ELSE Head(rs) \o Flatten(Tail(rs))

\* Grid.rows and Grid.all_cells of the constructed grid
rows == prepare_grid(num_rows, num_cols)
all_cells == Flatten(rows)
Cells == {all_cells[k] : k \in 1..Len(all_cells)}

\* Grid.configure_cells
configure_cells(R, C) ==
    [cell \in {Flatten(prepare_grid(R, C))[k] : k \in 1..Len(Flatten(prepare_grid(R, C)))} |->
        [d \in {NORTH, SOUTH, EAST, WEST} |->
            CASE d = NORTH -> get_cell(R, C, cell[1] - 1, cell[2])
              [] d = SOUTH -> get_cell(R, C, cell[1] + 1, cell[2])
              [] d = EAST  -> get_cell(R, C, cell[1], cell[2] + 1)
              [] d = WEST  -> get_cell(R, C, cell[1], cell[2] - 1)]]

\* Cell.get_neighbor
get_neighbor(cell, direction) == neighbor_cells[cell][direction]

RECURSIVE SelectNotNone(_)
SelectNotNone(s) ==
    IF s = <<>> THEN <<>>
    ELSE IF Head(s) # None THEN <<Head(s)>> \o SelectNotNone(Tail(s))
    ELSE SelectNotNone(Tail(s))

\* Cell.neighbors: the values of neighbor_cells that are not None, in the
\* order configure_cells inserted them
neighbors(cell) ==
    SelectNotNone([k \in 1..4 |-> neighbor_cells[cell][Directions[k]]])

\* A link that forgets the reverse passage
link_one_way(L, cell, other, bidirectional) ==
    [L EXCEPT ![cell] = @ \cup {other}]

\* Cell.link: add the passage, and with bidirectional the reverse one
link(L, cell, other, bidirectional) ==
    IF bidirectional
    THEN [L EXCEPT ![cell] = @ \cup {other}, ![other] = @ \cup {cell}]
    ELSE [L EXCEPT ![cell] = @ \cup {other}]

\* Cell.unlink
unlink(L, cell, other, bidirectional) ==
    IF bidirectional
    THEN [L EXCEPT ![cell] = @ \ {other}, ![other] = @ \ {cell}]
    ELSE [L EXCEPT ![cell] = @ \ {other}]

\* Cell.is_linked
is_linked(L, cell, other) == other \in L[cell]

-----------------------------------------------------------------------------
(* Graph notions the properties are stated with *)

\* The cells reachable from a set of cells through links
RECURSIVE ReachFrom(_, _)
ReachFrom(L, S) ==
    LET T == S \cup UNION {L[c] : c \in S}
    IN  IF T = S THEN S ELSE ReachFrom(L, T)

Connected(L, a, b) == b \in ReachFrom(L, {a})

\* The undirected links: two-cell sets
Edges(L) == {{pq[1], pq[2]} : pq \in {ab \in (DOMAIN L) \X (DOMAIN L) : ab[2] \in L[ab[1]]}}

\* No cycle: pruning cells of degree at most one removes every cell
RECURSIVE Prunes(_, _)
Prunes(E, V) ==
    LET leaves == {v \in V : Cardinality({e \in E : v \in e}) <= 1}
    IN  IF V = {} THEN TRUE
        ELSE IF leaves = {} THEN FALSE
        ELSE Prunes({e \in E : e \cap leaves = {}}, V \ leaves)

Acyclic(L) == Prunes(Edges(L), DOMAIN L)

Abs(n) == IF n < 0 THEN -n ELSE n

\* Two cells that differ by exactly 1 in exactly one coordinate
Adjacent(a, b) == Abs(a[1] - b[1]) + Abs(a[2] - b[2]) = 1

IsSpanningTree(L) ==
    /\ Cardinality(Edges(L)) = Cardinality(DOMAIN L) - 1
    /\ Acyclic(L)
    /\ \A a \in DOMAIN L : ReachFrom(L, {a}) = DOMAIN L

-----------------------------------------------------------------------------
(* Grid construction *)

NotCalled == [kind |-> "not called", val |-> <<>>]

\* The state before Grid(...) is called
NoGrid ==
    /\ grid = "none"
    /\ pc = "new"
    /\ num_rows = 0 /\ num_cols = 0
    /\ neighbor_cells = <<>>
    /\ links = <<>> /\ distance = <<>> /\ previous = <<>>
    /\ i = 0 /\ y = 0 /\ run = <<>>
    /\ set_counter = 0 /\ sets = <<>> /\ set_groups = <<>>
    /\ start_cell = None /\ end_cell = None /\ stack = <<>> /\ visited = {}
    /\ queue = <<>> /\ solves = 0
    /\ path = NotCalled /\ dj_path = NotCalled /\ closest = NotCalled

\* Grid.__init__ (with Cell.__init__ of every cell): no check of the
\* dimensions; range() of a non-positive number is empty
GridInit(R, C) ==
    /\ grid' = "constructed"
    /\ num_rows' = R
    /\ num_cols' = C
    /\ neighbor_cells' = configure_cells(R, C)
    /\ links' = [cell \in DOMAIN configure_cells(R, C) |-> {}]
    /\ distance' = [cell \in DOMAIN configure_cells(R, C) |-> 0]
    /\ previous' = [cell \in DOMAIN configure_cells(R, C) |-> None]

\* Grid(R, C) for any dimensions, non-positive ones included, within the bound
Construct(MaxCells) ==
    /\ grid = "none"
    /\ \E R \in -1..MaxCells, C \in -1..MaxCells :
          /\ R * C <= MaxCells
          /\ (R <= 0 \/ C <= 0) => (R <= 2 /\ C <= 2)
          /\ GridInit(R, C)
    /\ pc' = "idle"
    /\ UNCHANGED <<makerVars, dfsVars, djVars, closest>>

-----------------------------------------------------------------------------
(* BinaryTreeMazeMaker *)

\* make_maze: the candidates of a cell, south before east
BinaryTreeNeighbors(cell) ==
    SelectNotNone(<<get_neighbor(cell, SOUTH), get_neighbor(cell, EAST)>>)

StartBinaryTree ==
    /\ pc = "idle"
    /\ pc' = "BinaryTree"
    /\ i' = 1
    /\ UNCHANGED <<gridVars, links, distance, previous, y, run, set_counter,
                   sets, set_groups, dfsVars, djVars, closest>>

\* make_maze: one iteration of the loop over all_cells()
BinaryTreeStep ==
    /\ pc = "BinaryTree"
    /\ i <= Len(all_cells)
    /\ LET cell == all_cells[i]
           nbrs == BinaryTreeNeighbors(cell)
       IN  IF nbrs # <<>>
           THEN \E k \in 1..Len(nbrs) : links' = link(links, cell, nbrs[k], TRUE)
           ELSE links' = links
    /\ i' = i + 1
    /\ UNCHANGED <<gridVars, distance, previous, pc, y, run, set_counter,
                   sets, set_groups, dfsVars, djVars, closest>>

BinaryTreeReturn ==
    /\ pc = "BinaryTree"
    /\ i > Len(all_cells)
    /\ pc' = "BinaryTree_done"
    /\ i' = 0
    /\ UNCHANGED <<gridVars, links, distance, previous, y, run, set_counter,
                   sets, set_groups, dfsVars, djVars, closest>>

-----------------------------------------------------------------------------
(* SidewinderMazeMaker *)

\* A close-out that flips the coin in the top row too
should_close_out_any_row(at_eastern_boundary, at_northern_boundary, coin) ==
    at_eastern_boundary \/ coin = 0

\* make_maze: should_close_out; coin is random.randint(0, 1)
should_close_out(at_eastern_boundary, at_northern_boundary, coin) ==
    at_eastern_boundary \/ (~at_northern_boundary /\ coin = 0)

StartSidewinder ==
    /\ pc = "idle"
    /\ pc' = "Sidewinder"
    /\ y' = 1 /\ i' = 1 /\ run' = <<>>
    /\ UNCHANGED <<gridVars, links, distance, previous, set_counter,
                   sets, set_groups, dfsVars, djVars, closest>>

\* make_maze: one iteration of the loop over the cells of a row
SidewinderStep ==
    /\ pc = "Sidewinder"
    /\ y <= Len(rows)
    /\ i <= Len(rows[y])
    /\ LET cell == rows[y][i]
           run1 == Append(run, cell)
           at_eastern_boundary == get_neighbor(cell, EAST) = None
           at_northern_boundary == get_neighbor(cell, NORTH) = None
       IN  \E coin \in {0, 1} :
             IF should_close_out(at_eastern_boundary, at_northern_boundary, coin)
             THEN /\ \E k \in 1..Len(run1) :
                       LET member == run1[k] IN
                       IF get_neighbor(member, NORTH) # None
                       THEN links' = link(links, member, get_neighbor(member, NORTH), TRUE)
                       ELSE links' = links
                  /\ run' = <<>>
             ELSE /\ links' = link(links, cell, get_neighbor(cell, EAST), TRUE)
                  /\ run' = run1
    /\ i' = i + 1
    /\ UNCHANGED <<gridVars, distance, previous, pc, y, set_counter,
                   sets, set_groups, dfsVars, djVars, closest>>

\* make_maze: the next row starts with an empty run
SidewinderNextRow ==
    /\ pc = "Sidewinder"
    /\ y <= Len(rows)
    /\ i > Len(rows[y])
    /\ y' = y + 1 /\ i' = 1 /\ run' = <<>>
    /\ UNCHANGED <<gridVars, links, distance, previous, pc, set_counter,
                   sets, set_groups, dfsVars, djVars, closest>>

SidewinderReturn ==
    /\ pc = "Sidewinder"
    /\ y > Len(rows)
    /\ pc' = "Sidewinder_done"
    /\ y' = 0 /\ i' = 0 /\ run' = <<>>
    /\ UNCHANGED <<gridVars, links, distance, previous, set_counter,
                   sets, set_groups, dfsVars, djVars, closest>>

-----------------------------------------------------------------------------
(* EllerMazeMaker *)

\* sets[k] = v on a dict
DictSet(d, k, v) == [x \in (DOMAIN d) \cup {k} |-> IF x = k THEN v ELSE d[x]]

\* make_maze: every cell of the row that is in no set gets a fresh set id;
\* the result is <<sets, set_counter>>
RECURSIVE AssignSets(_, _, _)
AssignSets(row, S, counter) ==
    IF row = <<>> THEN <<S, counter>>
    ELSE IF Head(row) \notin DOMAIN S
         THEN AssignSets(Tail(row), DictSet(S, Head(row), counter + 1), counter + 1)
         ELSE AssignSets(Tail(row), S, counter)

\* A merge that moves only the linked cell to the other set
merge_sets_one_cell(S, cell, other_cell) ==
    [c \in DOMAIN S |-> IF c = cell THEN S[other_cell] ELSE S[c]]

\* merge_sets: every cell carrying cell's set id gets other_cell's
merge_sets(S, cell, other_cell) ==
    LET target_set_id == S[other_cell]
        source_set_id == S[cell]
    IN  [c \in DOMAIN S |-> IF S[c] = source_set_id THEN target_set_id ELSE S[c]]

\* group_sets_by_id: the set ids of the row in the order they first appear
RECURSIVE GroupIds(_, _, _)
GroupIds(S, row, seen) ==
    IF row = <<>> THEN seen
    ELSE IF \E k \in 1..Len(seen) : seen[k] = S[Head(row)]
         THEN GroupIds(S, Tail(row), seen)
         ELSE GroupIds(S, Tail(row), Append(seen, S[Head(row)]))

\* group_sets_by_id: the values of the dict of groups, each the cells of the
\* row with one set id, in row order
group_sets_by_id(S, row) ==
    LET ids == GroupIds(S, row, <<>>)
    IN  [g \in 1..Len(ids) |-> SelectSeq(row, LAMBDA c : S[c] = ids[g])]

StartEller ==
    /\ pc = "idle"
    /\ pc' = "Eller_assign"
    /\ y' = 1 /\ set_counter' = 0 /\ sets' = <<>>
    /\ UNCHANGED <<gridVars, links, distance, previous, i, run, set_groups,
                   dfsVars, djVars, closest>>

\* make_maze: the first loop over the row
EllerAssign ==
    /\ pc = "Eller_assign"
    /\ y <= Len(rows)
    /\ sets' = AssignSets(rows[y], sets, set_counter)[1]
    /\ set_counter' = AssignSets(rows[y], sets, set_counter)[2]
    /\ pc' = "Eller_horizontal"
    /\ i' = 1
    /\ UNCHANGED <<gridVars, links, distance, previous, y, run, set_groups,
                   dfsVars, djVars, closest>>

\* make_maze: one iteration of the loop over the adjacent pairs of the row;
\* coin is random.choice([True, False])
EllerHorizontal ==
    /\ pc = "Eller_horizontal"
    /\ i <= Len(rows[y]) - 1
    /\ LET cell == rows[y][i]
           next_cell == rows[y][i + 1]
       IN  \E coin \in BOOLEAN :
             IF sets[cell] # sets[next_cell] /\ coin
             THEN /\ links' = link(links, cell, next_cell, TRUE)
                  /\ sets' = merge_sets(sets, cell, next_cell)
             ELSE /\ links' = links
                  /\ sets' = sets
    /\ i' = i + 1
    /\ UNCHANGED <<gridVars, distance, previous, pc, y, run, set_counter,
                   set_groups, dfsVars, djVars, closest>>

\* make_maze: set_groups = self.group_sets_by_id(sets, row)
EllerGroup ==
    /\ pc = "Eller_horizontal"
    /\ i > Len(rows[y]) - 1
    /\ set_groups' = group_sets_by_id(sets, rows[y])
    /\ pc' = "Eller_south"
    /\ UNCHANGED <<gridVars, links, distance, previous, i, y, run, set_counter,
                   sets, dfsVars, djVars, closest>>

\* make_maze: one iteration of the loop over the groups
EllerSouth ==
    /\ pc = "Eller_south"
    /\ set_groups # <<>>
    /\ LET group == Head(set_groups) IN
       IF y - 1 < num_rows - 1
       THEN \E k \in 1..Len(group) :
              LET cell_to_link == group[k]
                  south_cell == get_cell(num_rows, num_cols,
                                         cell_to_link[1] + 1, cell_to_link[2])
              IN  /\ links' = link(links, cell_to_link, south_cell, TRUE)
                  /\ sets' = DictSet(sets, south_cell, sets[cell_to_link])
       ELSE /\ links' = links
            /\ sets' = sets
    /\ set_groups' = Tail(set_groups)
    /\ UNCHANGED <<gridVars, distance, previous, pc, i, y, run, set_counter,
                   dfsVars, djVars, closest>>

\* make_maze: after the groups, the last row gets its own loop and any other
\* row is followed by the next one
EllerEndSouth ==
    /\ pc = "Eller_south"
    /\ set_groups = <<>>
    /\ IF y - 1 = num_rows - 1
       THEN pc' = "Eller_last" /\ i' = 1 /\ y' = y
       ELSE pc' = "Eller_assign" /\ i' = i /\ y' = y + 1
    /\ UNCHANGED <<gridVars, links, distance, previous, run, set_counter,
                   sets, set_groups, dfsVars, djVars, closest>>

\* make_maze: one iteration of the last row's loop: no coin, no merge_sets
EllerLast ==
    /\ pc = "Eller_last"
    /\ i <= Len(rows[y]) - 1
    /\ LET cell == rows[y][i]
           next_cell == rows[y][i + 1]
       IN  IF sets[cell] # sets[next_cell]
           THEN links' = link(links, cell, next_cell, TRUE)
           ELSE links' = links
    /\ i' = i + 1
    /\ UNCHANGED <<gridVars, distance, previous, pc, y, run, set_counter,
                   sets, set_groups, dfsVars, djVars, closest>>

EllerEndLast ==
    /\ pc = "Eller_last"
    /\ i > Len(rows[y]) - 1
    /\ pc' = "Eller_assign"
    /\ y' = y + 1
    /\ UNCHANGED <<gridVars, links, distance, previous, i, run, set_counter,
                   sets, set_groups, dfsVars, djVars, closest>>

EllerReturn ==
    /\ pc = "Eller_assign"
    /\ y > Len(rows)
    /\ pc' = "Eller_done"
    /\ i' = 0 /\ y' = 0 /\ set_counter' = 0 /\ sets' = <<>> /\ set_groups' = <<>>
    /\ UNCHANGED <<gridVars, links, distance, previous, run, dfsVars, djVars, closest>>

-----------------------------------------------------------------------------
(* The makers: a grid is constructed and one maker runs on it once *)

MakerNext ==
    \/ Construct(MaxMakerCells)
    \/ StartBinaryTree \/ BinaryTreeStep \/ BinaryTreeReturn
    \/ StartSidewinder \/ SidewinderStep \/ SidewinderNextRow \/ SidewinderReturn
    \/ StartEller \/ EllerAssign \/ EllerHorizontal \/ EllerGroup \/ EllerSouth
    \/ EllerEndSouth \/ EllerLast \/ EllerEndLast \/ EllerReturn

MakerSpec == NoGrid /\ [][MakerNext]_vars

\* make_maze has returned
MakerDone == pc \in {"BinaryTree_done", "Sidewinder_done", "Eller_done"}

-----------------------------------------------------------------------------
(* The caller's side of the solvers: passages are opened and closed with  *)
(* Cell.link / Cell.unlink between neighbouring cells. A result is held   *)
(* until the maze changes or another query is made; solve may follow      *)
(* solve_maze with both results held                                      *)

Returned(kind, val) == [kind |-> kind, val |-> val]

\* The orders in which a Python set may be iterated
Orders(S) ==
    {f \in [1..Cardinality(S) -> S] : \A a, b \in 1..Cardinality(S) : a # b => f[a] # f[b]}

\* cell.link(other) for a neighbouring cell
LinkCells ==
    /\ pc = "idle"
    /\ \E cell \in Cells, k \in 1..4 :
          /\ get_neighbor(cell, Directions[k]) # None
          /\ ~is_linked(links, cell, get_neighbor(cell, Directions[k]))
          /\ links' = link(links, cell, get_neighbor(cell, Directions[k]), TRUE)
    /\ path' = NotCalled /\ dj_path' = NotCalled /\ closest' = NotCalled
    /\ start_cell' = None /\ end_cell' = None
    /\ UNCHANGED <<gridVars, distance, previous, pc, makerVars, stack, visited,
                   queue, solves>>

\* cell.unlink(other) for a linked cell
UnlinkCells ==
    /\ pc = "idle"
    /\ \E cell \in Cells :
          \E other \in links[cell] : links' = unlink(links, cell, other, TRUE)
    /\ path' = NotCalled /\ dj_path' = NotCalled /\ closest' = NotCalled
    /\ start_cell' = None /\ end_cell' = None
    /\ UNCHANGED <<gridVars, distance, previous, pc, makerVars, stack, visited,
                   queue, solves>>

-----------------------------------------------------------------------------
(* Grid.solve_maze *)

\* A traversal that pushes every linked cell, visited or not
PushesNeighbor_unchecked(neighbor, seen) == TRUE

\* solve_maze: whether a linked cell is pushed
PushesNeighbor(neighbor, seen) == neighbor \notin seen

\* solve_maze: the entries pushed for the linked cells, in iteration order
RECURSIVE Pushes(_, _, _)
Pushes(order, current_path, seen) ==
    IF order = <<>> THEN <<>>
    ELSE IF PushesNeighbor(Head(order), seen)
         THEN <<[cell |-> Head(order), path |-> Append(current_path, Head(order))]>>
              \o Pushes(Tail(order), current_path, seen)
         ELSE Pushes(Tail(order), current_path, seen)

\* solve_maze(start_cell, end_cell) is called
SolveMazeCall ==
    /\ pc = "idle"
    /\ \E a \in Cells, b \in Cells :
          /\ start_cell' = a
          /\ end_cell' = b
          /\ stack' = <<[cell |-> a, path |-> <<a>>]>>
    /\ visited' = {}
    /\ pc' = "solve_maze"
    /\ path' = NotCalled /\ dj_path' = NotCalled /\ closest' = NotCalled
    /\ UNCHANGED <<gridVars, links, distance, previous, makerVars, queue, solves>>

\* solve_maze: one iteration of the while loop
SolveMazeStep ==
    /\ pc = "solve_maze"
    /\ stack # <<>>
    /\ LET top == stack[Len(stack)]
           rest == SubSeq(stack, 1, Len(stack) - 1)
       IN  IF top.cell = end_cell
           THEN /\ path' = Returned("list", top.path)
                /\ pc' = "idle"
                /\ stack' = <<>>
                /\ visited' = {}
           ELSE /\ visited' = visited \cup {top.cell}
                /\ \E order \in Orders(links[top.cell]) :
                     stack' = rest \o Pushes(order, top.path, visited \cup {top.cell})
                /\ UNCHANGED <<pc, path>>
    /\ UNCHANGED <<gridVars, links, distance, previous, makerVars, start_cell,
                   end_cell, djVars, closest>>

\* solve_maze: the stack is empty, return None
SolveMazeReturnNone ==
    /\ pc = "solve_maze"
    /\ stack = <<>>
    /\ path' = Returned("None", <<>>)
    /\ pc' = "idle"
    /\ visited' = {}
    /\ UNCHANGED <<gridVars, links, distance, previous, makerVars, start_cell,
                   end_cell, stack, djVars, closest>>

-----------------------------------------------------------------------------
(* DjikstraSolver *)

\* An initialize that forgets the north-west cell
initialize_without_start(D) == [cell \in DOMAIN D |-> Sentinel]

\* initialize: every cell's distance is set, then the north-west cell's
initialize(D) ==
    [cell \in DOMAIN D |->
        IF cell = get_cell(num_rows, num_cols, 0, 0) THEN 0 ELSE Sentinel]

\* weight
weight(cell1, cell2) == IF cell2 \in links[cell1] THEN 1 ELSE Sentinel

\* list.sort(key=lambda x: x[0]) is stable: an entry goes behind the entries
\* whose distance is not larger
RECURSIVE InsertByDistance(_, _)
InsertByDistance(sorted, entry) ==
    IF sorted = <<>> THEN <<entry>>
    ELSE IF sorted[Len(sorted)][1] <= entry[1] THEN Append(sorted, entry)
    ELSE Append(InsertByDistance(SubSeq(sorted, 1, Len(sorted) - 1), entry),
                sorted[Len(sorted)])

RECURSIVE SortByDistance(_)
SortByDistance(q) ==
    IF q = <<>> THEN <<>>
    ELSE InsertByDistance(SortByDistance(SubSeq(q, 1, Len(q) - 1)), q[Len(q)])

\* add_to_queue
add_to_queue(Q, cell, dist) == SortByDistance(Append(Q, <<dist, cell>>))

\* relax: the loop over cell.links in one iteration order; the result is
\* <<distance, previous, queue>>
RECURSIVE relax(_, _, _, _, _)
relax(order, cell, D, P, Q) ==
    IF order = <<>> THEN <<D, P, Q>>
    ELSE LET neighbor == Head(order)
             new_distance == D[cell] + weight(cell, neighbor)
         IN  IF new_distance < D[neighbor]
             THEN relax(Tail(order), cell,
                        [D EXCEPT ![neighbor] = new_distance],
                        [P EXCEPT ![neighbor] = cell],
                        add_to_queue(Q, neighbor, new_distance))
             ELSE relax(Tail(order), cell, D, P, Q)

Min(S) == CHOOSE m \in S : \A n \in S : m <= n

\* recover_path: the lists the walk back from current can collect (min picks
\* the first of the nearest cells in the iteration order of current.links)
RECURSIVE Walks(_)
Walks(current) ==
    LET nearer == {n \in links[current] : distance[n] < distance[current]}
        nearest == {n \in nearer : distance[n] = Min({distance[m] : m \in nearer})}
    IN  IF current[1] = 0 /\ current[2] = 0 THEN {<<current>>}
        ELSE IF nearer = {} THEN {<<current>>}
        ELSE {<<current>> \o w : w \in UNION {Walks(n) : n \in nearest}}

Reverse(s) == [k \in 1..Len(s) |-> s[Len(s) + 1 - k]]

\* recover_path
recover_path ==
    {Reverse(w) : w \in Walks(get_cell(num_rows, num_cols, num_rows - 1, num_cols - 1))}

\* A test against float('inf'), which no distance set by initialize equals
target_unreached_inf(D, target) == FALSE

\* solve: target.distance == 10000
target_unreached(D, target) == D[target] = Sentinel

\* solve is called: initialize() and add_to_queue(get_cell(0, 0), 0)
SolveCall ==
    /\ pc = "idle"
    /\ solves < MaxSolves
    /\ solves' = solves + 1
    /\ distance' = initialize(distance)
    /\ queue' = add_to_queue(queue, get_cell(num_rows, num_cols, 0, 0), 0)
    /\ pc' = "initialized"
    /\ dj_path' = NotCalled /\ closest' = NotCalled
    /\ UNCHANGED <<gridVars, links, previous, makerVars, dfsVars>>

\* solve: one iteration of the while loop
SolveStep ==
    /\ pc \in {"initialized", "solve"}
    /\ queue # <<>>
    /\ LET curr_cell == Head(queue)[2] IN
       \E order \in Orders(links[curr_cell]) :
          LET r == relax(order, curr_cell, distance, previous, Tail(queue))
          IN  /\ distance' = r[1]
              /\ previous' = r[2]
              /\ queue' = r[3]
    /\ pc' = "solve"
    /\ UNCHANGED <<gridVars, links, makerVars, dfsVars, solves, dj_path, closest>>

\* solve: the queue is empty; [] when the target's distance is the sentinel
SolveReturn ==
    /\ pc \in {"initialized", "solve"}
    /\ queue = <<>>
    /\ LET target == get_cell(num_rows, num_cols, num_rows - 1, num_cols - 1)
       IN  IF target_unreached(distance, target)
           THEN dj_path' = Returned("list", <<>>)
           ELSE \E p \in recover_path : dj_path' = Returned("list", p)
    /\ pc' = "idle"
    /\ UNCHANGED <<gridVars, links, distance, previous, makerVars, dfsVars,
                   queue, solves, closest>>

-----------------------------------------------------------------------------
(* Cell.get_closest_cell *)

\* getattr(self, direction.lower(), None): a Cell has no attribute north,
\* south, east or west, so the default is what it gives
getattr_direction(cell, direction) == None

\* get_closest_cell: all_neighbors, the list min() is taken of
all_neighbors(cell) ==
    neighbors(cell) \o
    SelectSeq([k \in 1..4 |-> getattr_direction(cell, Directions[k])],
              LAMBDA n : n # None /\ is_linked(links, cell, n))

\* min(list, key=...): the first element with the smallest key
FirstMin(s, D) ==
    s[CHOOSE k \in 1..Len(s) :
        /\ \A j \in 1..Len(s) : D[s[k]] <= D[s[j]]
        /\ \A j \in 1..(k - 1) : D[s[j]] > D[s[k]]]

\* get_closest_cell
get_closest_cell(cell) ==
    IF all_neighbors(cell) = <<>> THEN None
    ELSE FirstMin(all_neighbors(cell), distance)

GetClosestCell ==
    /\ pc = "idle"
    /\ \E cell \in Cells :
          closest' = IF get_closest_cell(cell) = None
                     THEN Returned("None", <<cell>>)
                     ELSE Returned("cell", <<cell, get_closest_cell(cell)>>)
    /\ path' = NotCalled /\ dj_path' = NotCalled
    /\ start_cell' = None /\ end_cell' = None
    /\ UNCHANGED <<gridVars, links, distance, previous, pc, makerVars, stack,
                   visited, queue, solves>>

-----------------------------------------------------------------------------
(* The solvers: on a constructed grid the caller opens and closes passages *)
(* and calls the solvers                                                   *)

\* The state Grid(R, C) leaves for positive dimensions within the bound
SolverInit ==
    /\ grid = "constructed"
    /\ pc = "idle"
    /\ \E R \in 1..MaxSolverCells, C \in 1..MaxSolverCells :
          /\ R * C <= MaxSolverCells
          /\ num_rows = R
          /\ num_cols = C
          /\ neighbor_cells = configure_cells(R, C)
          /\ links = [cell \in DOMAIN configure_cells(R, C) |-> {}]
          /\ distance = [cell \in DOMAIN configure_cells(R, C) |-> 0]
          /\ previous = [cell \in DOMAIN configure_cells(R, C) |-> None]
    /\ i = 0 /\ y = 0 /\ run = <<>>
    /\ set_counter = 0 /\ sets = <<>> /\ set_groups = <<>>
    /\ start_cell = None /\ end_cell = None /\ stack = <<>> /\ visited = {}
    /\ queue = <<>> /\ solves = 0
    /\ path = NotCalled /\ dj_path = NotCalled /\ closest = NotCalled

SolverNext ==
    \/ LinkCells \/ UnlinkCells
    \/ SolveMazeCall \/ SolveMazeStep \/ SolveMazeReturnNone
    \/ SolveCall \/ SolveStep \/ SolveReturn
    \/ GetClosestCell

SolverSpec == SolverInit /\ [][SolverNext]_vars

-----------------------------------------------------------------------------
(* Properties *)

NorthWest == get_cell(num_rows, num_cols, 0, 0)
SouthEast == get_cell(num_rows, num_cols, num_rows - 1, num_cols - 1)

ZeroLinks == \A c \in DOMAIN links : links[c] = {}

\* A list of cells that leads from a to b through links
IsLinkPath(p, a, b) ==
    /\ Len(p) >= 1
    /\ p[1] = a
    /\ p[Len(p)] = b
    /\ \A k \in 1..(Len(p) - 1) : is_linked(links, p[k], p[k + 1])

NoRepeat(p) == \A j, k \in 1..Len(p) : j # k => p[j] # p[k]

\* The number of links on a shortest link path from a set of cells to b
RECURSIVE LinkDistance(_, _, _, _)
LinkDistance(L, S, b, d) ==
    LET T == S \cup UNION {L[c] : c \in S}
    IN  IF b \in S THEN d
        ELSE IF T = S THEN -1
        ELSE LinkDistance(L, T, b, d + 1)

MakerRunning ==
    pc \in {"BinaryTree", "Sidewinder", "Eller_assign", "Eller_horizontal",
            "Eller_south", "Eller_last"}

\* C1: once make_maze of any of the three makers has returned on a fresh grid
\* with R >= 1 and C >= 1, the links form a spanning tree of the R*C cells:
\* R*C - 1 undirected links, no cycle, every cell reachable from every cell.
C1_SpanningTree ==
    (MakerDone /\ num_rows >= 1 /\ num_cols >= 1) =>
        /\ Cardinality(Edges(links)) = num_rows * num_cols - 1
        /\ Acyclic(links)
        /\ \A a \in Cells : \A b \in Cells : Connected(links, a, b)

\* C1: Sidewinder has returned on a 3x3 grid
C1_Witness ==
    /\ pc = "Sidewinder_done"
    /\ num_rows = 3 /\ num_cols = 3
    /\ Cardinality(Edges(links)) = 8

\* C4: in every state during and after a maker's run, every linked pair is a
\* pair of cells that differ by exactly 1 in exactly one coordinate, and the
\* link is there in both directions.
C4_LinksAdjacentSymmetric ==
    \A a \in DOMAIN links : \A b \in links[a] :
        /\ b \in DOMAIN links
        /\ Adjacent(a, b)
        /\ is_linked(links, b, a)

\* C4: a maker is at work on a grid of at least 2x2 and has opened passages
C4_Witness ==
    /\ MakerRunning
    /\ num_rows >= 2 /\ num_cols >= 2
    /\ Cardinality(Edges(links)) >= 3

\* C5 as claimed: a Grid with rows <= 0 or cols <= 0 is never constructed.
C5_NonPositiveRejected ==
    (num_rows <= 0 \/ num_cols <= 0) => grid # "constructed"

EllerAddsOnlyJoiningLinks ==
    pc \in {"Eller_horizontal", "Eller_south", "Eller_last"} =>
        (\A a \in DOMAIN links : \A b \in (links'[a] \ links[a]) :
            ~Connected(links, a, b))

EllerDifferentSetsUnconnected ==
    (/\ pc \in {"Eller_horizontal", "Eller_last"}
     /\ i <= Len(rows[y]) - 1
     /\ sets[rows[y][i]] # sets[rows[y][i + 1]])
    => ~Connected(links, rows[y][i], rows[y][i + 1])

\* C9: every step of an Eller run that adds a link (coin-flip link, south
\* link, last-row link) adds it between two cells no link path connected
\* before the step; and whenever the pair of the row under consideration
\* carries two different set ids, its cells are not connected.
C9_EllerLinksJoinComponents ==
    [][EllerAddsOnlyJoiningLinks]_vars /\ []EllerDifferentSetsUnconnected

\* C9: in the last row's loop a link was added without merging the set ids,
\* and the next pair is about to be considered
C9_Witness ==
    /\ pc = "Eller_last"
    /\ num_rows >= 2
    /\ i = 2 /\ i <= Len(rows[y]) - 1
    /\ is_linked(links, rows[y][1], rows[y][2])
    /\ sets[rows[y][1]] # sets[rows[y][2]]
    /\ sets[rows[y][2]] # sets[rows[y][3]]

\* C2: when solve_maze(A, B) has returned and B is reachable from A through
\* links (tree or not), the result is a list that starts at A, ends at B, has
\* every consecutive pair linked and holds no cell twice; for A = B it is [A].
C2_SolveMazePath ==
    (path.kind # "not called" /\ Connected(links, start_cell, end_cell)) =>
        /\ path.kind = "list"
        /\ IsLinkPath(path.val, start_cell, end_cell)
        /\ NoRepeat(path.val)
        /\ start_cell = end_cell => path.val = <<start_cell>>

\* C2: solve_maze returned a path of four cells on a grid whose links have a cycle
C2_Witness ==
    /\ path.kind = "list"
    /\ Len(path.val) = 4
    /\ ~Acyclic(links)

\* C3 as claimed, for the end points DjikstraSolver.solve has (north-west to
\* south-east): on a spanning tree its result has as many links as the tree
\* distance of the two cells and is the list solve_maze returns for them.
C3_SolveEqualsSolveMaze ==
    (/\ IsSpanningTree(links)
     /\ path.kind # "not called" /\ start_cell = NorthWest /\ end_cell = SouthEast
     /\ dj_path.kind # "not called") =>
        /\ Len(dj_path.val) - 1 = LinkDistance(links, {NorthWest}, SouthEast, 0)
        /\ dj_path.val = path.val

\* C6: on a grid of at least two cells with no link, solve_maze between two
\* distinct cells returns None and DjikstraSolver.solve returns [], and each
\* solver's loop ends with its first iteration.
C6_NoLinksNotFound ==
    (ZeroLinks /\ Cardinality(Cells) >= 2) =>
        /\ (path.kind # "not called" /\ start_cell # end_cell) =>
                path = Returned("None", <<>>)
        /\ dj_path.kind # "not called" => dj_path = Returned("list", <<>>)
        /\ (pc = "solve_maze" /\ start_cell # end_cell /\ visited # {}) => stack = <<>>
        /\ pc = "solve" => queue = <<>>

\* C6: both solvers have returned not-found on a grid without links
C6_Witness ==
    /\ ZeroLinks /\ Cardinality(Cells) >= 2
    /\ start_cell # end_cell
    /\ path = Returned("None", <<>>)
    /\ dj_path = Returned("list", <<>>)

\* C7 as claimed: when the south-east cell is reachable from the north-west
\* cell through links, DjikstraSolver.solve returns a link path from the one
\* to the other, never the empty list.
C7_ReachableIsFound ==
    (dj_path.kind # "not called" /\ Connected(links, NorthWest, SouthEast)) =>
        IsLinkPath(dj_path.val, NorthWest, SouthEast)

\* C8 as claimed: initialize leaves every cell with the sentinel distance and
\* no predecessor, except the north-west cell, whose distance is 0.
C8_InitializeResetsAll ==
    pc = "initialized" =>
        \A c \in Cells :
            /\ distance[c] = (IF c = NorthWest THEN 0 ELSE Sentinel)
            /\ previous[c] = None

\* C8 amended: initialize leaves every cell with the sentinel distance, except
\* the north-west cell, whose distance is 0, in every solve call; predecessors
\* are not touched by it.
C8_InitializeResetsDistances ==
    pc = "initialized" =>
        \A c \in Cells : distance[c] = (IF c = NorthWest THEN 0 ELSE Sentinel)

\* C8: a later solve call has initialized a grid whose links changed since a
\* predecessor was written
C8_Witness ==
    /\ pc = "initialized"
    /\ solves >= 2
    /\ \E c \in Cells : previous[c] # None /\ ~is_linked(links, c, previous[c])

\* C10 as claimed: get_closest_cell returns None when the cell has no linked
\* neighbour, and otherwise a linked neighbour of smallest distance.
C10_ClosestIsLinked ==
    closest.kind # "not called" =>
        LET cell == closest.val[1]
            linked == {n \in Cells : Adjacent(cell, n) /\ is_linked(links, cell, n)}
        IN  IF linked = {} THEN closest.kind = "None"
            ELSE /\ closest.kind = "cell"
                 /\ closest.val[2] \in linked
                 /\ \A n \in linked : distance[closest.val[2]] <= distance[n]

====
